---- MODULE Spec2Model ----
(***************************************************************************)
(* Model of src/main.py: the FastAPI service with GET / (health_check) and *)
(* POST /api/ (data_analyst_agent).  One asyncio event loop serves every   *)
(* request; a coroutine runs uninterrupted between two awaits.             *)
(*                                                                         *)
(* Strings are modelled at two grains:                                     *)
(*   - texts handled line by line (uploaded bytes, the model output, the   *)
(*     script) are non-empty sequences of lines, "" being <<"">>;          *)
(*   - the script's output streams are sequences of characters.            *)
(***************************************************************************)
EXTENDS Integers, Sequences, FiniteSets, TLC

\* ------------------------------------------------------------------ bounds
MaxParts == 2      \* parts of one multipart form
MaxOut == 2        \* characters the script writes to stdout
MaxLines == 4      \* lines of one LLM completion given to the extractor alone

\* --------------------------------------------------------------- constants
EXECUTION_TIMEOUT == 170

\* Concurrent requests; each draws its own uuid4, named after the request.
Requests == {"s1", "s2"}
NoOne == "none"

VARIABLES
    pc,                 \* where each request's coroutine stands
    loop,               \* the request whose blocking call holds the event loop thread
    dirs,               \* directories of the filesystem (paths are component sequences)
    files,              \* regular files: path -> content
    questions_content,  \* local of data_analyst_agent
    script_content,     \* local of data_analyst_agent
    live_descendants,   \* the script's process tree has live descendant processes
    result,             \* what the last subprocess.run captured
    response,           \* the HTTP response delivered to each client
    cause,              \* the way each request ended
    llm_calls,          \* chat completions requested per request
    exec_count,         \* subprocess.run calls per request
    script_writes,      \* times agent_script.py was written as the script
    completion          \* response.choices[0].message.content under extraction

vars == <<pc, loop, dirs, files, questions_content, script_content,
          live_descendants, result, response, cause, llm_calls, exec_count,
          script_writes, completion>>

\* -------------------------------------------------------------- filesystem
EmptyText == <<"">>
Root == <<>>
TmpDir == <<"tmp">>

\* os.path.join("/tmp", session_id)
work_dir(s) == <<"tmp", s>>

Parent(p) == IF p = <<>> THEN <<>> ELSE SubSeq(p, 1, Len(p) - 1)

IsPrefix(d, p) == Len(d) <= Len(p) /\ SubSeq(p, 1, Len(d)) = d

\* A filename as the client sent it: absolute or relative, split at "/".
FileName(abs, parts) == [abs |-> abs, parts |-> parts]

\* os.path.join(work_dir, file.filename): an absolute second argument
\* discards the first.
JoinPath(wd, name) == IF name.abs THEN [base |-> Root, parts |-> name.parts]
                      ELSE [base |-> wd, parts |-> name.parts]

\* The kernel's walk of the path's directories: each one must exist, ".."
\* steps to the parent.
RECURSIVE Walk(_, _, _)
Walk(ds, cur, parts) ==
    IF Len(parts) <= 1 THEN [ok |-> TRUE, dir |-> cur]
    ELSE LET c == Head(parts)
             nxt == IF c = ".." THEN Parent(cur) ELSE Append(cur, c)
         IN IF nxt \in ds THEN Walk(ds, nxt, Tail(parts))
            ELSE [ok |-> FALSE, dir |-> cur]

\* open(filepath, "wb"): the file the path names, or an OSError when a
\* directory of the path is missing or the path names a directory.
OpenForWrite(ds, joined) ==
    LET w == Walk(ds, joined.base, joined.parts)
        leaf == joined.parts[Len(joined.parts)]
        target == IF leaf = ".." THEN Parent(w.dir) ELSE Append(w.dir, leaf)
    IN IF joined.base \notin ds \/ ~w.ok \/ target \in ds
       THEN [ok |-> FALSE, path |-> <<>>]
       ELSE [ok |-> TRUE, path |-> target]

WriteFile(fs, p, data) ==
    [q \in (DOMAIN fs) \cup {p} |-> IF q = p THEN data ELSE fs[q]]

\* shutil.rmtree(work_dir), guarded by os.path.exists(work_dir)
RmTreeDirs(ds, wd) == {d \in ds : ~IsPrefix(wd, d)}
RmTreeFiles(fs, wd) == [q \in {p \in DOMAIN fs : ~IsPrefix(wd, p)} |-> fs[q]]

NoFinallyDirs(ds, wd) == ds
\* the finally block, lines 174-177
FinallyDirs(ds, wd) == IF wd \in ds THEN RmTreeDirs(ds, wd) ELSE ds
FinallyFiles(fs, ds, wd) == IF wd \in ds THEN RmTreeFiles(fs, wd) ELSE fs

InWorkspace(p, s) == IsPrefix(work_dir(s), p)

\* ------------------------------------------------------------ the request
\* One item of form.items(): an uploaded file, or a plain text field (a str,
\* which has no attribute filename).
Part(name, data) == [is_file |-> TRUE, filename |-> name, data |-> data]
PlainField == [is_file |-> FALSE, filename |-> FileName(FALSE, <<>>), data |-> EmptyText]

QuestionsName == FileName(FALSE, <<"questions.txt">>)
ScriptName == FileName(FALSE, <<"agent_script.py">>)

Uploads == {
    Part(QuestionsName, <<"Q">>),
    Part(QuestionsName, EmptyText),
    Part(FileName(FALSE, <<"Questions.TXT">>), <<"Q">>),
    Part(ScriptName, <<"U">>),
    Part(FileName(FALSE, <<"..", "x">>), <<"U">>),
    Part(FileName(TRUE, <<"tmp", "x">>), <<"U">>),
    Part(FileName(FALSE, <<>>), <<"U">>),
    PlainField }

Forms == UNION {[1..n -> Uploads] : n \in 0..MaxParts}

\* ------------------------------------------------------------- exceptions
HTTPException(status_code, detail) ==
    [type |-> "HTTPException", status_code |-> status_code, detail |-> detail]
OtherException(type, message) ==
    [type |-> type, status_code |-> 0, detail |-> <<message>>]

\* str(e): Starlette's HTTPException prints "<status_code>: <detail>".
Str(e) == IF e.type = "HTTPException"
          THEN <<ToString(e.status_code), ": ">> \o e.detail
          ELSE e.detail

\* -------------------------------------------------------------- responses
NoFields == [k \in {} |-> <<>>]

\* FastAPI's handler of an HTTPException: {"detail": ...} with its status.
HTTPExceptionResponse(e) ==
    [status |-> e.status_code,
     body |-> [shape |-> "object", text |-> <<>>,
               fields |-> [k \in {"detail"} |-> e.detail]]]

\* An exception no handler catches: Starlette answers 500 in plain text.
ServerErrorResponse ==
    [status |-> 500,
     body |-> [shape |-> "text", text |-> <<"Internal Server Error">>,
               fields |-> NoFields]]

NoResponse ==
    [status |-> 0, body |-> [shape |-> "none", text |-> <<>>, fields |-> NoFields]]

\* lines 171-173: except Exception as e: raise HTTPException(500, str(e)).
\* HTTPException is an Exception, so the handler's own HTTPExceptions are
\* caught here too.
OuterExcept(e) == HTTPException(500, Str(e))

\* ------------------------------------------------- form.items() loop, 70-81
SaveState(fs, qc, raised) == [files |-> fs, questions_content |-> qc, raised |-> raised]

SavePart(st, ds, wd, part) ==
    IF st.raised # "" THEN st
    ELSE IF ~part.is_file THEN [st EXCEPT !.raised = "AttributeError"]
    ELSE IF part.filename.parts = <<>> THEN st
    ELSE LET f == OpenForWrite(ds, JoinPath(wd, part.filename))
         IN IF ~f.ok THEN [st EXCEPT !.raised = "OSError"]
            ELSE LET fs == WriteFile(st.files, f.path, part.data)
                 IN SaveState(fs,
                              IF part.filename = QuestionsName
                              THEN fs[f.path] ELSE st.questions_content,
                              "")

RECURSIVE SaveParts(_, _, _, _)
SaveParts(st, ds, wd, form) ==
    IF form = <<>> THEN st
    ELSE SaveParts(SavePart(st, ds, wd, Head(form)), ds, wd, Tail(form))

\* -------------------------------------------- the script's output streams
OutChars == {" ", "1", "[", "]", "N"}
Stdouts == UNION {[1..n -> OutChars] : n \in 0..MaxOut}
\* What a script that failed or was killed had written by then: a short prefix.
PartialStdouts == {o \in Stdouts : Len(o) <= 1}
Stderrs == {<<>>, <<"b", "o", "o", "m">>, <<"[", "[", "[", "]", "]", "]">>}
Runtimes == {1, EXECUTION_TIMEOUT + 1}
ReturnCodes == {0, 1}
SIGKILL == -9

\* str.strip() on a character string
RECURSIVE LStrip(_)
LStrip(s) == IF s # <<>> /\ Head(s) = " " THEN LStrip(Tail(s)) ELSE s
RECURSIVE RStrip(_)
RStrip(s) == IF s # <<>> /\ s[Len(s)] = " " THEN RStrip(SubSeq(s, 1, Len(s) - 1)) ELSE s
Strip(s) == RStrip(LStrip(s))

\* JSON values: a number (a run of digits), the constant NaN that Python's
\* json module reads and writes beyond the JSON grammar, an array.
JNum(k) == [t |-> "num", n |-> k, items |-> <<>>]
JNaN == [t |-> "nan", n |-> 0, items |-> <<>>]
JArr(items) == [t |-> "arr", n |-> 0, items |-> items]
ParseFail == [ok |-> FALSE, next |-> 0, val |-> JNaN]
Parsed(next, val) == [ok |-> TRUE, next |-> next, val |-> val]

RECURSIVE SkipWs(_, _)
SkipWs(s, i) == IF i <= Len(s) /\ s[i] = " " THEN SkipWs(s, i + 1) ELSE i
RECURSIVE DigitsEnd(_, _)
DigitsEnd(s, i) == IF i <= Len(s) /\ s[i] = "1" THEN DigitsEnd(s, i + 1) ELSE i

\* json.JSONDecoder: one value starting at s[i]
RECURSIVE ParseValue(_, _)
ParseValue(s, i) ==
    IF i > Len(s) THEN ParseFail
    ELSE IF s[i] = "1" THEN Parsed(DigitsEnd(s, i), JNum(DigitsEnd(s, i) - i))
    ELSE IF s[i] = "N" THEN Parsed(i + 1, JNaN)
    ELSE IF s[i] = "[" THEN
        LET j == SkipWs(s, i + 1)
        IN IF j <= Len(s) /\ s[j] = "]" THEN Parsed(j + 1, JArr(<<>>))
           ELSE LET e == ParseValue(s, j)
                    m == SkipWs(s, e.next)
                IN IF e.ok /\ m <= Len(s) /\ s[m] = "]"
                   THEN Parsed(m + 1, JArr(<<e.val>>))
                   ELSE ParseFail
    ELSE ParseFail

\* json.loads(s): a single value with whitespace around it, else JSONDecodeError
json_loads(s) ==
    LET v == ParseValue(s, SkipWs(s, 1))
    IN IF v.ok /\ SkipWs(s, v.next) > Len(s)
       THEN [ok |-> TRUE, val |-> v.val]
       ELSE [ok |-> FALSE, val |-> JNaN]

RECURSIVE HasNaN(_)
HasNaN(v) == \/ v.t = "nan"
             \/ v.t = "arr" /\ v.items # <<>> /\ HasNaN(v.items[1])

\* RFC 8259: the text is one JSON value (NaN is none)
WellFormedJSON(s) == json_loads(s).ok /\ ~HasNaN(json_loads(s).val)

\* json.dumps(content, allow_nan=False, separators=(",", ":"))
RECURSIVE Dumps(_)
Dumps(v) ==
    IF v.t = "num" THEN [i \in 1..v.n |-> "1"]
    ELSE IF v.t = "nan" THEN <<"N">>
    ELSE <<"[">> \o (IF v.items = <<>> THEN <<>> ELSE Dumps(v.items[1])) \o <<"]">>

\* ------------------------------------------------------ lines 137 to 169
WrappedJSONResponse(v) ==
    [status |-> 200,
     body |-> [shape |-> "value", text |-> Dumps(JArr(<<v>>)), fields |-> NoFields]]
\* line 153: JSONResponse(content=json_output)
JSONResponse(v) ==
    [status |-> 200,
     body |-> [shape |-> "value", text |-> Dumps(v), fields |-> NoFields]]

StdoutErrorResponse(stdout, stderr) ==
    [status |-> 500,
     body |-> [shape |-> "object", text |-> <<>>,
               fields |-> [k \in {"error", "stderr"} |->
                             IF k = "error" THEN <<"Script execution failed">>
                             ELSE stdout]]]
\* lines 165-169: JSONResponse(content=error_response, status_code=500)
ErrorResponse(stdout, stderr) ==
    [status |-> 500,
     body |-> [shape |-> "object", text |-> <<>>,
               fields |-> [k \in {"error", "stderr"} |->
                             IF k = "error" THEN <<"Script execution failed">>
                             ELSE stderr]]]

Returned(resp, c) == [raised |-> FALSE, response |-> resp,
                      exc |-> OtherException("", ""), cause |-> c]
Raised(e, c) == [raised |-> TRUE, response |-> NoResponse, exc |-> e, cause |-> c]

LenientDecode(stdout) ==
    Returned(JSONResponse(JArr(<<>>)), "success")
\* lines 154-156: except json.JSONDecodeError
UndecodableOutput(stdout) ==
    Raised(HTTPException(500, <<"Agent script produced invalid JSON.">>), "invalid_json")

SucceededFromEitherStream(res) ==
    LET stdout == Strip(res.stdout)
        json_output == IF json_loads(stdout).ok THEN json_loads(stdout)
                       ELSE json_loads(Strip(res.stderr))
    IN IF ~json_output.ok THEN UndecodableOutput(stdout)
       ELSE IF HasNaN(json_output.val)
       THEN Raised(OtherException("ValueError",
                       "Out of range float values are not JSON compliant"),
                   "unrenderable_json")
       ELSE Returned(JSONResponse(json_output.val), "success")
\* lines 148-156: the script returned 0
Succeeded(res) ==
    LET stdout == Strip(res.stdout)
        json_output == json_loads(stdout)
    IN IF ~json_output.ok THEN UndecodableOutput(stdout)
       ELSE IF HasNaN(json_output.val)
       THEN Raised(OtherException("ValueError",
                       "Out of range float values are not JSON compliant"),
                   "unrenderable_json")
       ELSE Returned(JSONResponse(json_output.val), "success")

\* lines 137-169: what the inner try statement does with the run's outcome
InnerTry(res) ==
    IF res.timed_out
    THEN Raised(HTTPException(504, <<"Analysis task timed out.">>), "timeout")
    ELSE IF res.returncode # 0
    THEN Returned(ErrorResponse(res.stdout, res.stderr), "nonzero_exit")
    ELSE Succeeded(res)

\* lines 64, 171-173: what leaves the outer try statement
OuterTry(t) ==
    IF t.raised THEN HTTPExceptionResponse(OuterExcept(t.exc)) ELSE t.response

\* ----------------------------------------------- the script, lines 102-128
\* The three backquotes of a code fence are written <fence>.
FencePy == "<fence>python"
Fence == "<fence>"
StartsFence(l) == l \in {Fence, FencePy}
\* str.lstrip(), str.rstrip() and str.strip() on one line: of the lines below,
\* one begins with blanks and one ends with blanks.
lstrip_line(l) == IF l = "  import json" THEN "import json" ELSE l
rstrip_line(l) == IF l = "print(json.dumps(a))  " THEN "print(json.dumps(a))" ELSE l
strip_line(l) == rstrip_line(lstrip_line(l))
\* line.strip().startswith(('import ', 'from '))
IsImport(l) == strip_line(l) \in {"import json", "from os import path"}
\* lines[i].strip().startswith('print(json.dumps')
IsPrint(l) == strip_line(l) = "print(json.dumps(a))"

Min(S) == CHOOSE x \in S : \A y \in S : x <= y
Max(S) == CHOOSE x \in S : \A y \in S : x >= y

\* str.strip() on a text: the blank lines at both ends go, and so do the blanks
\* that begin the first line left and those that end the last
StripLines(t) ==
    LET full == {i \in 1..Len(t) : t[i] # ""}
        cut == SubSeq(t, Min(full), Max(full))
        left == [cut EXCEPT ![1] = lstrip_line(@)]
    IN IF full = {} THEN EmptyText
       ELSE [left EXCEPT ![Len(left)] = rstrip_line(@)]

\* re.search(r"<fence>python\n(.*?)\n<fence>", script_content, re.DOTALL): the first
\* line ending the opening fence that a later line beginning with <fence> closes,
\* and the nearest such line, at least one line in between.
FenceCloses(t, i) == {j \in (i + 2)..Len(t) : StartsFence(t[j])}
FenceOpens(t) == {i \in 1..Len(t) : t[i] = FencePy /\ FenceCloses(t, i) # {}}
code_match(t) ==
    IF FenceOpens(t) = {} THEN [found |-> FALSE, group |-> EmptyText]
    ELSE LET i == Min(FenceOpens(t))
             j == Min(FenceCloses(t, i))
         IN [found |-> TRUE, group |-> SubSeq(t, i + 1, j - 1)]

StartAtFirstLine(lines) == 1
\* lines 112, 116-119: the first line that begins an import, else the first line
start_index(lines) ==
    LET imports == {i \in 1..Len(lines) : IsImport(lines[i])}
    IN IF imports = {} THEN 1 ELSE Min(imports)

EndAnywhere(lines, start) ==
    LET prints == {i \in 1..Len(lines) : IsPrint(lines[i])}
    IN IF prints = {} THEN Len(lines) ELSE Max(prints)
\* lines 113, 122-125: scanning back from the last line down to the start, the
\* first line met that begins the print of the JSON, else the last line
end_index(lines, start) ==
    LET prints == {i \in start..Len(lines) : IsPrint(lines[i])}
    IN IF prints = {} THEN Len(lines) ELSE Max(prints)

\* lines 111-128
Fallback(t) ==
    LET lines == StripLines(t)
    IN SubSeq(lines, start_index(lines), end_index(lines, start_index(lines)))

\* lines 106-128
Extract(t) ==
    IF code_match(t).found THEN StripLines(code_match(t).group) ELSE Fallback(t)

ModelOutputs == {
    <<"Here is the script:", FencePy, "import json", "print(json.dumps(a))", Fence>>,
    <<"import json", "print(json.dumps(a))", "Hope this helps">>,
    <<"I cannot help with that">> }

\* lines 130-132: open(script_path, "w").write(script_content)
script_path(wd) == wd \o ScriptName.parts
KeepUploadedScript(fs, wd, script) ==
    IF script_path(wd) \in DOMAIN fs THEN fs ELSE WriteFile(fs, script_path(wd), script)
WriteScript(fs, wd, script) == WriteFile(fs, script_path(wd), script)

\* ------------------------------------------------------------------ state
\* What an earlier process left under /tmp/<session_id>, if anything.
LeftFile(s) == work_dir(s) \o <<"left.csv">>
LeftData == <<"L">>

NoResult == [session |-> NoOne, runtime |-> 0, timed_out |-> FALSE,
             returncode |-> 0, stdout |-> <<>>, stderr |-> <<>>]

Init ==
    /\ pc = [s \in Requests |-> "idle"]
    /\ loop = NoOne
    /\ \E left \in SUBSET Requests :
           /\ dirs = {Root, TmpDir} \cup {work_dir(s) : s \in left}
           /\ files = [p \in {LeftFile(s) : s \in left} |-> LeftData]
    /\ questions_content = [s \in Requests |-> EmptyText]
    /\ script_content = [s \in Requests |-> EmptyText]
    /\ live_descendants = [s \in Requests |-> FALSE]
    /\ result = NoResult
    /\ response = [s \in Requests |-> NoResponse]
    /\ cause = [s \in Requests |-> "none"]
    /\ llm_calls = [s \in Requests |-> 0]
    /\ exec_count = [s \in Requests |-> 0]
    /\ script_writes = [s \in Requests |-> 0]
    /\ completion = [s \in Requests |-> EmptyText]

\* The handler leaves its try statement with outcome t, the filesystem's
\* files being fs: the response (or the exception that becomes it) is
\* decided, and the finally block is what the coroutine runs next, without
\* giving up the event loop.
Leave(s, t, fs) ==
    /\ response' = [response EXCEPT ![s] = OuterTry(t)]
    /\ cause' = [cause EXCEPT ![s] = t.cause]
    /\ files' = fs
    /\ pc' = [pc EXCEPT ![s] = "finally"]
    /\ loop' = s
    /\ UNCHANGED <<dirs, questions_content, script_content>>

\* ---------------------------------------------------------------- actions
\* GET /: lines 25-28.  It needs the event loop and changes nothing.
health_check ==
    /\ loop = NoOne
    /\ UNCHANGED vars

ExistOk(ds, wd) == FALSE
\* line 62: os.makedirs(work_dir) raises FileExistsError on an existing path
MakedirsFails(ds, wd) == wd \in ds

\* lines 60-66: the request arrives; the coroutine runs to await request.form()
Accept(s) ==
    /\ pc[s] = "idle"
    /\ loop = NoOne
    /\ IF MakedirsFails(dirs, work_dir(s))
       THEN \* os.makedirs raises FileExistsError outside the try statement
            /\ pc' = [pc EXCEPT ![s] = "done"]
            /\ response' = [response EXCEPT ![s] = ServerErrorResponse]
            /\ cause' = [cause EXCEPT ![s] = "makedirs_failed"]
            /\ UNCHANGED dirs
       ELSE /\ pc' = [pc EXCEPT ![s] = "form"]
            /\ dirs' = dirs \cup {work_dir(s)}
            /\ UNCHANGED <<response, cause>>
    /\ UNCHANGED <<loop, files, questions_content, script_content,
                   live_descendants, result, llm_calls, exec_count, script_writes, completion>>

NeverMissing(content) == FALSE
\* line 83: not questions_content
MissingTask(content) == content = EmptyText

\* lines 66-100: the form is there; the coroutine runs to the await of the
\* chat completion, or leaves
ParseForm(s) ==
    /\ pc[s] = "form"
    /\ loop = NoOne
    /\ \E form \in Forms :
         LET st == SaveParts(SaveState(files, EmptyText, ""), dirs, work_dir(s), form)
         IN IF st.raised # ""
            THEN /\ Leave(s, Raised(OtherException(st.raised, "upload"), "unexpected"),
                          st.files)
                 /\ UNCHANGED llm_calls
            ELSE IF MissingTask(st.questions_content)
            THEN /\ Leave(s, Raised(HTTPException(400, <<"questions.txt is missing.">>),
                                    "missing_task"), st.files)
                 /\ UNCHANGED llm_calls
            ELSE /\ files' = st.files
                 /\ questions_content' =
                        [questions_content EXCEPT ![s] = st.questions_content]
                 /\ llm_calls' = [llm_calls EXCEPT ![s] = @ + 1]
                 /\ pc' = [pc EXCEPT ![s] = "llm"]
                 /\ UNCHANGED <<loop, dirs, script_content, response, cause>>
    /\ UNCHANGED <<live_descendants, result, exec_count, script_writes, completion>>

\* lines 93-100 raise: the chat completion fails
LLMFails(s) ==
    /\ pc[s] = "llm"
    /\ loop = NoOne
    /\ \/ Leave(s, Raised(OtherException("APIError", "Connection error."),
                          "llm_failure"), files)
       \/ \* message.content is None: re.search raises TypeError
          Leave(s, Raised(OtherException("TypeError", "expected string"),
                          "llm_unusable"), files)
    /\ UNCHANGED <<live_descendants, result, llm_calls, exec_count, script_writes, completion>>

\* lines 102-145: the completion is there; the script is extracted, written
\* and started, and subprocess.run keeps the thread until the child ends
LLMReturns(s) ==
    /\ pc[s] = "llm"
    /\ loop = NoOne
    /\ \E text \in ModelOutputs :
         /\ completion' = [completion EXCEPT ![s] = text]
         /\ script_content' = [script_content EXCEPT ![s] = Extract(text)]
         /\ files' = WriteScript(files, work_dir(s), Extract(text))
    /\ script_writes' = [script_writes EXCEPT ![s] = @ + 1]
    /\ exec_count' = [exec_count EXCEPT ![s] = @ + 1]
    /\ pc' = [pc EXCEPT ![s] = "running"]
    /\ loop' = s
    /\ UNCHANGED <<dirs, questions_content, live_descendants, result, response,
                   cause, llm_calls>>

\* The running script starts a process of its own.
Spawn(s) ==
    /\ pc[s] = "running"
    /\ ~live_descendants[s]
    /\ live_descendants' = [live_descendants EXCEPT ![s] = TRUE]
    /\ UNCHANGED <<pc, loop, dirs, files, questions_content, script_content,
                   result, response, cause, llm_calls, exec_count, script_writes, completion>>

\* The script's descendants end by themselves.
DescendantsExit(s) ==
    /\ live_descendants[s]
    /\ live_descendants' = [live_descendants EXCEPT ![s] = FALSE]
    /\ UNCHANGED <<pc, loop, dirs, files, questions_content, script_content,
                   result, response, cause, llm_calls, exec_count, script_writes, completion>>

\* subprocess.run(..., timeout=EXECUTION_TIMEOUT, check=True): after the
\* timeout it kills the child it started, nothing else, and raises
RunResult(s, runtime, returncode, stdout, stderr) ==
    [session |-> s, runtime |-> runtime, timed_out |-> runtime > EXECUTION_TIMEOUT,
     returncode |-> IF runtime > EXECUTION_TIMEOUT THEN SIGKILL ELSE returncode,
     stdout |-> stdout, stderr |-> stderr]

\* lines 138-178: the child ends or is killed; the coroutine runs to its end
ScriptEnds(s) ==
    /\ pc[s] = "running"
    /\ loop = s
    /\ \E runtime \in Runtimes, returncode \in ReturnCodes,
          stdout \in Stdouts, stderr \in Stderrs :
         /\ runtime > EXECUTION_TIMEOUT => returncode = 1
         /\ runtime > EXECUTION_TIMEOUT \/ returncode # 0 => stdout \in PartialStdouts
         /\ result' = RunResult(s, runtime, returncode, stdout, stderr)
         /\ Leave(s, InnerTry(result'), files)
    /\ UNCHANGED <<live_descendants, llm_calls, exec_count, script_writes, completion>>

\* Where a request goes once its finally block has run.
RetryAfterFault(s) == IF response[s].status >= 500 THEN "llm" ELSE "done"
AfterFinally(s) == "done"

\* lines 174-178: the finally block; the coroutine ends, its locals with it,
\* and the response goes to the client
Finally(s) ==
    /\ pc[s] = "finally"
    /\ loop = s
    /\ dirs' = FinallyDirs(dirs, work_dir(s))
    /\ files' = FinallyFiles(files, dirs, work_dir(s))
    /\ pc' = [pc EXCEPT ![s] = AfterFinally(s)]
    /\ loop' = NoOne
    /\ questions_content' = [questions_content EXCEPT ![s] = EmptyText]
    /\ script_content' = [script_content EXCEPT ![s] = EmptyText]
    /\ completion' = [completion EXCEPT ![s] = EmptyText]
    /\ result' = NoResult
    /\ UNCHANGED <<live_descendants, response, cause, llm_calls, exec_count, script_writes>>

Next ==
    \/ health_check
    \/ \E s \in Requests : Accept(s)
    \/ \E s \in Requests : ParseForm(s)
    \/ \E s \in Requests : LLMFails(s)
    \/ \E s \in Requests : LLMReturns(s)
    \/ \E s \in Requests : Spawn(s)
    \/ \E s \in Requests : DescendantsExit(s)
    \/ \E s \in Requests : ScriptEnds(s)
    \/ \E s \in Requests : Finally(s)

Spec == Init /\ [][Next]_vars

\* ------------------------------------------------- the extractor on its own
\* Texts of up to MaxLines lines, each line one of these: the opening fence,
\* the closing fence, imports with and without indentation, the final print
\* with and without trailing blanks, prose and the empty line.
LineKinds == {FencePy, Fence, "import json", "  import json",
              "print(json.dumps(a))", "print(json.dumps(a))  ", "prose", ""}
Texts == UNION {[1..n -> LineKinds] : n \in 1..MaxLines}

\* line 102: the message content of any completion the LLM may return
InitExtract ==
    /\ \E t \in Texts :
           completion = [s \in Requests |-> IF s = "s1" THEN t ELSE EmptyText]
    /\ pc = [s \in Requests |-> IF s = "s1" THEN "completion" ELSE "idle"]
    /\ loop = NoOne
    /\ dirs = {Root, TmpDir}
    /\ files = [p \in {} |-> LeftData]
    /\ questions_content = [s \in Requests |-> EmptyText]
    /\ script_content = [s \in Requests |-> EmptyText]
    /\ live_descendants = [s \in Requests |-> FALSE]
    /\ result = NoResult
    /\ response = [s \in Requests |-> NoResponse]
    /\ cause = [s \in Requests |-> "none"]
    /\ llm_calls = [s \in Requests |-> 0]
    /\ exec_count = [s \in Requests |-> 0]
    /\ script_writes = [s \in Requests |-> 0]

\* lines 102-128 applied to the completion
ExtractScript(s) ==
    /\ pc[s] = "completion"
    /\ script_content' = [script_content EXCEPT ![s] = Extract(completion[s])]
    /\ pc' = [pc EXCEPT ![s] = "extracted"]
    /\ UNCHANGED <<loop, dirs, files, questions_content, live_descendants, result,
                   response, cause, llm_calls, exec_count, script_writes, completion>>

\* The text that puts a script between an opening and a closing fence.
Wrapped(script) == <<FencePy>> \o script \o <<Fence>>

\* lines 102-128 applied again, to the script just extracted put between fences
ReExtract(s) ==
    /\ pc[s] = "extracted"
    /\ completion' = [completion EXCEPT ![s] = Wrapped(script_content[s])]
    /\ script_content' = [script_content EXCEPT ![s] = Extract(Wrapped(script_content[s]))]
    /\ pc' = [pc EXCEPT ![s] = "reextracted"]
    /\ UNCHANGED <<loop, dirs, files, questions_content, live_descendants, result,
                   response, cause, llm_calls, exec_count, script_writes>>

NextExtract ==
    \/ \E s \in Requests : ExtractScript(s)
    \/ \E s \in Requests : ReExtract(s)

SpecExtract == InitExtract /\ [][NextExtract]_vars

\* ================================================================ claims
Finished(s) == pc[s] = "done"
\* The handler of s has decided its response from the run it captured.
Validated(s) == pc[s] = "finally" /\ result.session = s
ExitedZero(s) == Validated(s) /\ ~result.timed_out /\ result.returncode = 0
ExitedNonZero(s) == Validated(s) /\ ~result.timed_out /\ result.returncode # 0
TimedOut(s) == Validated(s) /\ result.timed_out
Keys(s) == DOMAIN response[s].body.fields
ReachedScriptResult(s) ==
    cause[s] \in {"success", "timeout", "nonzero_exit", "invalid_json",
                  "unrenderable_json"}

\* C1: once a request that created its workspace directory has completed, in
\* whatever way, the directory /tmp/<session_id> and everything in it are gone.
C1_WorkspaceGoneAfterRequest ==
    \A s \in Requests :
        Finished(s) /\ cause[s] # "makedirs_failed" =>
            /\ work_dir(s) \notin dirs
            /\ \A p \in DOMAIN files : ~InWorkspace(p, s)

C1_Witness ==
    /\ Finished("s1") /\ cause["s1"] = "timeout"
    /\ Finished("s2") /\ cause["s2"] = "missing_task"
    /\ work_dir("s1") \notin dirs /\ work_dir("s2") \notin dirs

\* C2: a request without a task description is answered with status 400.
C2_MissingTaskAnswered400 ==
    \A s \in Requests :
        Finished(s) /\ cause[s] = "missing_task" => response[s].status = 400

\* C3: a script that runs longer than EXECUTION_TIMEOUT is answered with
\* status 504, and the response carries none of the script's output.
C3_TimeoutAnswered504 ==
    \A s \in Requests :
        TimedOut(s) =>
            /\ result.runtime > EXECUTION_TIMEOUT
            /\ response[s].status = 504
            /\ response[s].body.shape = "object"
            /\ \A k \in Keys(s) : result.stdout # <<>> =>
                   response[s].body.fields[k] # result.stdout

\* C4: a script that exits non-zero within the timeout is answered with status
\* 500 and a body of exactly the keys "error" and "stderr", "stderr" being the
\* captured standard error; the captured standard output is nowhere in it.
C4_NonZeroExitAnswered ==
    \A s \in Requests :
        ExitedNonZero(s) =>
            /\ response[s].status = 500
            /\ response[s].body.shape = "object"
            /\ Keys(s) = {"error", "stderr"}
            /\ response[s].body.fields["stderr"] = result.stderr
            /\ result.stdout # <<>> =>
                   \A k \in Keys(s) : response[s].body.fields[k] # result.stdout

C4_Witness ==
    /\ ExitedNonZero("s1")
    /\ result.stdout = <<"1">>
    /\ result.stderr = <<"b", "o", "o", "m">>
    /\ response["s1"].body.fields["stderr"] = <<"b", "o", "o", "m">>

C6_BadOutputAnswered500 ==
    \A s \in Requests :
        ExitedZero(s) /\ ~WellFormedJSON(Strip(result.stdout)) =>
            /\ response[s].status = 500
            /\ response[s].body.shape # "value"
            /\ \A o \in PartialStdouts, e \in Stderrs :
                   response[s] # ErrorResponse(o, e)

C6_Witness ==
    /\ ExitedZero("s1")
    /\ result.stdout = <<"[", "1">>
    /\ response["s1"].status = 500
    /\ cause["s1"] = "invalid_json"

\* C7: once the timeout has produced its result, no process of the script's
\* process tree is alive.
C7_TimeoutKillsProcessTree ==
    \A s \in Requests : TimedOut(s) => ~live_descendants[s]

\* C8: while a session's script executes, the health check and the other
\* sessions can take a step.
C8_ExecutionLeavesLoopFree ==
    \A s \in Requests :
        pc[s] = "running" =>
            /\ ENABLED health_check
            /\ \A o \in Requests \ {s} : pc[o] = "idle" => ENABLED Accept(o)

\* C9: no uploaded artifact is written outside a session's workspace directory.
C9_UploadsStayInWorkspace ==
    \A p \in DOMAIN files : \E s \in Requests : InWorkspace(p, s)

\* C10: within a request the LLM is called at most once and the script is
\* executed at most once, whatever fails; a request that reached a script
\* result made exactly one call and exactly one execution.
C10_NoRetries ==
    \A s \in Requests :
        /\ llm_calls[s] <= 1
        /\ exec_count[s] <= 1
        /\ exec_count[s] <= llm_calls[s]
        /\ ReachedScriptResult(s) => llm_calls[s] = 1 /\ exec_count[s] = 1

C10_Witness ==
    /\ Finished("s1") /\ cause["s1"] = "invalid_json"
    /\ Finished("s2") /\ cause["s2"] = "llm_failure"
    /\ llm_calls = [s \in Requests |-> 1]
    /\ exec_count["s1"] = 1 /\ exec_count["s2"] = 0

\* C11: a request that supplied no task description ends without an LLM call
\* and without a script written or executed.
TaskFile(s) == work_dir(s) \o QuestionsName.parts
TaskSupplied(s) == TaskFile(s) \in DOMAIN files /\ files[TaskFile(s)] # EmptyText
NothingGenerated(s) ==
    llm_calls[s] = 0 /\ exec_count[s] = 0 /\ script_writes[s] = 0
C11_NoTaskNoCallNoScript ==
    \A s \in Requests :
        /\ pc[s] = "finally" /\ ~TaskSupplied(s) => NothingGenerated(s)
        /\ cause[s] = "missing_task" => NothingGenerated(s)

C11_Witness ==
    /\ pc["s1"] = "finally" /\ cause["s1"] = "missing_task"
    /\ ~TaskSupplied("s1") /\ NothingGenerated("s1")
    /\ DOMAIN files # {}

\* C15: a session's steps write, overwrite and delete files in its own
\* workspace directory only, so that sessions uploading the same filename
\* cannot touch each other's files.
FileChanged(p) ==
    \/ p \notin DOMAIN files
    \/ p \notin DOMAIN files'
    \/ files[p] # files'[p]
C15_SessionsTouchOwnWorkspace ==
    [][\A p \in (DOMAIN files) \cup (DOMAIN files') :
           FileChanged(p) => \E s \in Requests : pc'[s] # pc[s] /\ InWorkspace(p, s)]_vars

\* C16: an upload whose filename is questions.txt in any letter case, with
\* content, is taken as the task description: the LLM is called.
Lower(name) == IF name = "Questions.TXT" THEN "questions.txt" ELSE name
NamedAsTask(p, s) ==
    InWorkspace(p, s) /\ Len(p) = 3 /\ Lower(p[3]) = "questions.txt"
C16_TaskNameAnyCase ==
    \A s \in Requests :
        pc[s] = "finally" /\ cause[s] # "unexpected"
        /\ (\E p \in DOMAIN files : NamedAsTask(p, s) /\ files[p] # EmptyText)
        => llm_calls[s] = 1

\* C17: the captured standard error is in the response only after a non-zero
\* exit, and what is parsed as the answer is the standard output alone.
C17_StderrOnlyAfterNonZeroExit ==
    \A s \in Requests :
        /\ Validated(s) /\ ~ExitedNonZero(s) /\ result.stderr # <<>> =>
               /\ response[s].body.text # result.stderr
               /\ \A k \in Keys(s) : response[s].body.fields[k] # result.stderr
        /\ ExitedZero(s) =>
               /\ response[s].status = 200 <=> WellFormedJSON(Strip(result.stdout))
               /\ response[s].status = 200 =>
                      json_loads(response[s].body.text) = json_loads(Strip(result.stdout))

C17_Witness ==
    /\ ExitedZero("s1")
    /\ result.stderr = <<"[", "[", "[", "]", "]", "]">>
    /\ result.stdout = <<"[">>
    /\ response["s1"].status = 500

\* C18: a session is never given a directory that was there before, and never
\* deletes one: when /tmp/<session_id> exists as the request starts, the
\* request ends there and the directory and its contents stay as they were.
C18_ExistingDirectoryUntouched ==
    \A s \in Requests :
        /\ pc[s] \in {"form", "llm", "running", "finally"} =>
               LeftFile(s) \notin DOMAIN files
        /\ cause[s] = "makedirs_failed" =>
               /\ work_dir(s) \in dirs
               /\ LeftFile(s) \in DOMAIN files
               /\ files[LeftFile(s)] = LeftData
               /\ NothingGenerated(s)

C18_Witness ==
    /\ Finished("s1") /\ cause["s1"] = "makedirs_failed"
    /\ LeftFile("s1") \in DOMAIN files
    /\ Finished("s2") /\ cause["s2"] = "success"
    /\ work_dir("s2") \notin dirs

\* C20: the file that is executed holds the extracted script, never uploaded
\* bytes: it is written once, after the uploads and before the subprocess
\* starts, and not again.
UploadedData == {u.data : u \in Uploads}
C20_ExecutedFileIsTheScript ==
    \A s \in Requests :
        /\ script_writes[s] <= 1
        /\ exec_count[s] = 1 /\ pc[s] \in {"running", "finally"} =>
               /\ script_writes[s] = 1
               /\ script_path(work_dir(s)) \in DOMAIN files
               /\ files[script_path(work_dir(s))] = script_content[s]
               /\ script_content[s] \in {Extract(t) : t \in ModelOutputs}
               /\ script_content[s] \notin UploadedData

C20_Witness ==
    /\ pc["s1"] = "running"
    /\ files[script_path(work_dir("s1"))] = <<"import json", "print(json.dumps(a))">>
    /\ TaskSupplied("s1")

\* ------------------------------------------------ claims on the extractor
\* A python block: an opening fence line and the next later line that begins
\* with a fence; its interior is what lies between the two.
BlockEnds(t, i) == {j \in (i + 1)..Len(t) : StartsFence(t[j])}
BlockStarts(t) == {i \in 1..Len(t) : t[i] = FencePy /\ BlockEnds(t, i) # {}}
HasPyBlock(t) == BlockStarts(t) # {}
FirstBlockInterior(t) ==
    LET i == Min(BlockStarts(t))
        j == Min(BlockEnds(t, i))
    IN SubSeq(t, i + 1, j - 1)
Extracted(s) == pc[s] = "extracted"

\* C12: for a model output holding a python fenced block, the extracted script
\* is the trimmed interior of the first such block.
C12_FirstBlockInterior ==
    \A s \in Requests :
        Extracted(s) /\ HasPyBlock(completion[s]) =>
            script_content[s] = StripLines(FirstBlockInterior(completion[s]))

\* C13: for a model output without a python fenced block that has an import
\* line and, at or after the first of them, a line printing the JSON, the
\* extracted script is the lines of the trimmed output from the first import
\* line to the last such print line, both included.
ImportLines(lines) == {i \in 1..Len(lines) : IsImport(lines[i])}
PrintLines(lines) == {i \in 1..Len(lines) : IsPrint(lines[i])}
MarkersInOrder(lines) ==
    /\ ImportLines(lines) # {}
    /\ \E i \in PrintLines(lines) : i >= Min(ImportLines(lines))
C13_FirstImportToLastPrint ==
    \A s \in Requests :
        LET lines == StripLines(completion[s])
        IN Extracted(s) /\ ~HasPyBlock(completion[s]) /\ MarkersInOrder(lines) =>
               /\ script_content[s] =
                      SubSeq(lines, Min(ImportLines(lines)), Max(PrintLines(lines)))
               /\ IsImport(script_content[s][1])
               /\ IsPrint(script_content[s][Len(script_content[s])])

C13_Witness ==
    /\ Extracted("s1")
    /\ completion["s1"] = <<"prose", "import json", "print(json.dumps(a))", "prose">>
    /\ script_content["s1"] = <<"import json", "print(json.dumps(a))">>

\* C14: extracting from an extracted script put between fences returns that
\* script.
C14_Idempotent ==
    \A s \in Requests :
        pc[s] = "reextracted" =>
            script_content[s] = SubSeq(completion[s], 2, Len(completion[s]) - 1)

\* C19: without a fenced block the range taken from the trimmed output is never
\* empty: it starts at the first import line, or at the first line when there
\* is none, and ends at the last print line at or after the start, or at the
\* last line when there is none, a print line before the start being ignored.
C19_FallbackRangeNotEmpty ==
    \A s \in Requests :
        LET lines == StripLines(completion[s])
            first == IF ImportLines(lines) = {} THEN 1 ELSE Min(ImportLines(lines))
            after == {i \in PrintLines(lines) : i >= first}
            last == IF after = {} THEN Len(lines) ELSE Max(after)
        IN Extracted(s) /\ ~code_match(completion[s]).found =>
               /\ 1 <= first /\ first <= last /\ last <= Len(lines)
               /\ script_content[s] = SubSeq(lines, first, last)
               /\ Len(script_content[s]) >= 1

C19_Witness ==
    /\ Extracted("s1")
    /\ completion["s1"] = <<"print(json.dumps(a))", "import json", "prose">>
    /\ script_content["s1"] = <<"import json", "prose">>

====
